---- MODULE Spec2Model ----
(***************************************************************************)
(* Start-up database bootstrap of backend/apps/web/internal/db.py.         *)
(*                                                                         *)
(* The module body runs once per process start (one "run" per process p).  *)
(* Runs share the data directory (fs) and the database (applied).          *)
(* Spec     : runs follow each other (single-instance start-up, restarts). *)
(* SpecConc : runs may overlap (several instances on one data directory).  *)
(***************************************************************************)
EXTENDS Naturals, Sequences, FiniteSets

\* ---------------------------------------------------------------- bounds
MaxRuns == 2          \* number of process starts on the same data directory
MaxMigrations == 1    \* largest number of files in the migrations directory

Procs == 1..MaxRuns

\* ------------------------------------------------------------- constants
None == "None"
OllamaDb == "ollama.db"    \* f"{DATA_DIR}/ollama.db"
WebuiDb == "webui.db"     \* f"{DATA_DIR}/webui.db"
Paths == {OllamaDb, WebuiDb}
Contents == {"A", "B"}

MigratedMsg == "Database migrated from Ollama-WebUI successfully."

Engines == {"postgres", "Postgres", "sqlite"}     \* values of DB_ENGINE
Urls == {"sqlite", "postgresql", "bogus"}         \* scheme of DATABASE_URL
Platforms == {"posix", "windows"}

Steps == {"idle", "check", "rename", "log_migrated", "select", "pg", "url",
          "log_connected", "router", "run", "reconnect", "done", "failed"}

VARIABLES
  fs,       \* data directory: path -> file content, or None when absent
  applied,  \* number of migrations recorded as applied in the database
  config,   \* [engine, url]: DB_ENGINE and DATABASE_URL
  env,      \* [platform, reachable, migOk, migDir]: what the run meets
  pc,       \* per run: the statement of the module body about to execute
  DB,       \* per run: the module-level DB handle (NoHandle or a handle record)
  log,      \* per run: the info messages emitted, in order
  trace,    \* per run: the calls made so far, in order
  renames,  \* per run: number of os.rename calls that returned normally
  err,      \* per run: the exception that ended the run, or None
  fs0,      \* per run: the data directory as it was when the run started
  racing    \* runs that saw ollama.db while another run that saw it had
            \* not yet called os.rename

vars == <<fs, applied, config, env, pc, DB, log, trace, renames, err, fs0,
          racing>>

\* --------------------------------------------------------- library calls

\* os.path.exists(path)
os_path_exists_always(f, path) == TRUE
os_path_exists(f, path) == f[path] # None

\* os.rename(src, dst): replaces dst on POSIX, raises FileExistsError on
\* Windows when dst exists; raises when src is missing or access is denied.
os_rename_noop(f, src, dst, platform, denied) ==
  [ok |-> TRUE, err |-> None, fs |-> f]
os_rename_copy(f, src, dst, platform, denied) ==
  IF f[src] = None
    THEN [ok |-> FALSE, err |-> "FileNotFoundError", fs |-> f]
  ELSE IF denied
    THEN [ok |-> FALSE, err |-> "PermissionError", fs |-> f]
  ELSE IF f[dst] # None /\ platform = "windows"
    THEN [ok |-> FALSE, err |-> "FileExistsError", fs |-> f]
  ELSE [ok |-> TRUE, err |-> None, fs |-> [f EXCEPT ![dst] = f[src]]]
os_rename(f, src, dst, platform, denied) ==
  IF f[src] = None
    THEN [ok |-> FALSE, err |-> "FileNotFoundError", fs |-> f]
  ELSE IF denied
    THEN [ok |-> FALSE, err |-> "PermissionError", fs |-> f]
  ELSE IF f[dst] # None /\ platform = "windows"
    THEN [ok |-> FALSE, err |-> "FileExistsError", fs |-> f]
  ELSE [ok |-> TRUE, err |-> None,
        fs |-> [f EXCEPT ![dst] = f[src], ![src] = None]]

\* DB = None: no handle, written as a handle record of no class
NoHandle == [cls |-> None, from |-> None, open |-> FALSE, opened |-> 0]

\* PostgresqlExtDatabase(DB_NAME, user=..., ...): builds the handle, opens nothing
PostgresqlExtDatabase ==
  [cls |-> "PostgresqlExtDatabase", from |-> "params", open |-> FALSE, opened |-> 0]

\* playhouse.db_url.connect(url): picks the class from the scheme, builds the
\* handle without opening a connection; unknown scheme raises RuntimeError.
UrlClass(url) ==
  CASE url = "sqlite" -> "SqliteDatabase"
    [] url = "postgresql" -> "PostgresqlDatabase"
    [] OTHER -> None
connect(url) ==
  IF UrlClass(url) = None
    THEN [ok |-> FALSE, err |-> "RuntimeError", db |-> NoHandle]
    ELSE [ok |-> TRUE, err |-> None,
          db |-> [cls |-> UrlClass(url), from |-> "url", open |-> FALSE, opened |-> 0]]

ConnectedMsg(cls) ==
  CASE cls = "SqliteDatabase" -> "Connected to a SqliteDatabase database."
    [] cls = "PostgresqlDatabase" -> "Connected to a PostgresqlDatabase database."
    [] OTHER -> "Connected to a PostgresqlExtDatabase database."

\* Database.connect(reuse_if_open): an open connection is kept when
\* reuse_if_open, otherwise a new one is opened (which needs the server).
DB_connect_duplicate(db, reuse_if_open, reachable) ==
  IF ~reachable
    THEN [ok |-> FALSE, err |-> "OperationalError", db |-> db]
    ELSE [ok |-> TRUE, err |-> None,
          db |-> [db EXCEPT !.open = TRUE, !.opened = db.opened + 1]]
DB_connect(db, reuse_if_open, reachable) ==
  IF db.open
    THEN IF reuse_if_open
           THEN [ok |-> TRUE, err |-> None, db |-> db]
           ELSE [ok |-> FALSE, err |-> "OperationalError", db |-> db]
  ELSE IF ~reachable
    THEN [ok |-> FALSE, err |-> "OperationalError", db |-> db]
  ELSE [ok |-> TRUE, err |-> None,
        db |-> [db EXCEPT !.open = TRUE, !.opened = db.opened + 1]]

\* --------------------------------------------------------- control flow

\* if DB_ENGINE == "postgres": ... else: ...
EngineBranch_all_generic(engine) == "url"
EngineBranch(engine) == IF engine = "postgres" THEN "pg" ELSE "url"

\* The statement that follows a statement which returned normally.
StepAfter_no_migration(step) ==
  CASE step = "rename" -> "log_migrated"
    [] step = "log_migrated" -> "select"
    [] step = "pg" -> "done"
    [] step = "url" -> "log_connected"
    [] step = "log_connected" -> "router"
    [] step = "router" -> "reconnect"
    [] step = "run" -> "reconnect"
    [] step = "reconnect" -> "done"
StepAfter_connect_first(step) ==
  CASE step = "rename" -> "log_migrated"
    [] step = "log_migrated" -> "select"
    [] step = "pg" -> "done"
    [] step = "url" -> "log_connected"
    [] step = "log_connected" -> "router"
    [] step = "router" -> "reconnect"
    [] step = "reconnect" -> "run"
    [] step = "run" -> "done"
StepAfter(step) ==
  CASE step = "rename" -> "log_migrated"
    [] step = "log_migrated" -> "select"
    [] step = "pg" -> "done"
    [] step = "url" -> "log_connected"
    [] step = "log_connected" -> "router"
    [] step = "router" -> "run"
    [] step = "run" -> "reconnect"
    [] step = "reconnect" -> "done"

Terminated(p) == pc[p] \in {"done", "failed"}

\* The other runs that are between their os.path.exists and their os.rename.
Waiting(p) == {q \in Procs \ {p} : pc[q] = "rename"}

\* ------------------------------------------------------------------ Init
Init ==
  /\ fs \in [Paths -> {None} \cup Contents]
  /\ fs[OllamaDb] \in {None, "A"}
  /\ fs[WebuiDb] \in {None, "B"}
  /\ applied = 0
  /\ config \in [engine : Engines, url : Urls]
  /\ env \in [platform : Platforms, reachable : BOOLEAN, migOk : BOOLEAN,
              migDir : 0..MaxMigrations]
  /\ pc = [p \in Procs |-> "idle"]
  /\ DB = [p \in Procs |-> NoHandle]
  /\ log = [p \in Procs |-> <<>>]
  /\ trace = [p \in Procs |-> <<>>]
  /\ renames = [p \in Procs |-> 0]
  /\ err = [p \in Procs |-> None]
  /\ fs0 = [p \in Procs |-> fs]
  /\ racing = {}

\* --------------------------------------------------------------- actions

Raise(p, e) ==
  /\ pc' = [pc EXCEPT ![p] = "failed"]
  /\ err' = [err EXCEPT ![p] = e]

Call(p, name) == trace' = [trace EXCEPT ![p] = Append(@, name)]

\* A process start when the earlier runs are over (single-instance start-up).
StartSeq(p) ==
  /\ pc[p] = "idle"
  /\ \A q \in Procs : (q < p => Terminated(q)) /\ (q > p => pc[q] = "idle")
  /\ pc' = [pc EXCEPT ![p] = "check"]
  /\ fs0' = [fs0 EXCEPT ![p] = fs]
  /\ UNCHANGED <<fs, applied, config, env, DB, log, trace, renames, err, racing>>

\* A process start while other instances may still be in their bootstrap.
StartConc(p) ==
  /\ pc[p] = "idle"
  /\ pc' = [pc EXCEPT ![p] = "check"]
  /\ fs0' = [fs0 EXCEPT ![p] = fs]
  /\ UNCHANGED <<fs, applied, config, env, DB, log, trace, renames, err, racing>>

\* if os.path.exists(f"{DATA_DIR}/ollama.db"): ... else: pass
LegacyCheck(p) ==
  /\ pc[p] = "check"
  /\ Call(p, "exists")
  /\ pc' = [pc EXCEPT ![p] =
              IF os_path_exists(fs, OllamaDb) THEN "rename" ELSE "select"]
  /\ racing' = IF os_path_exists(fs, OllamaDb) /\ Waiting(p) # {}
                 THEN racing \cup {p} \cup Waiting(p)
                 ELSE racing
  /\ UNCHANGED <<fs, applied, config, env, DB, log, renames, err, fs0>>

\* os.rename(f"{DATA_DIR}/ollama.db", f"{DATA_DIR}/webui.db")
LegacyRename(p) ==
  /\ pc[p] = "rename"
  /\ Call(p, "rename")
  /\ \E denied \in BOOLEAN :
       LET r == os_rename(fs, OllamaDb, WebuiDb, env.platform, denied) IN
         IF r.ok
           THEN /\ fs' = r.fs
                /\ renames' = [renames EXCEPT ![p] = @ + 1]
                /\ pc' = [pc EXCEPT ![p] = StepAfter("rename")]
                /\ UNCHANGED err
           ELSE /\ Raise(p, r.err)
                /\ UNCHANGED <<fs, renames, racing>>
  /\ UNCHANGED <<applied, config, env, DB, log, fs0, racing>>

\* log.info("Database migrated from Ollama-WebUI successfully.")
LogMigrated(p) ==
  /\ pc[p] = "log_migrated"
  /\ Call(p, "log_migrated")
  /\ log' = [log EXCEPT ![p] = Append(@, MigratedMsg)]
  /\ pc' = [pc EXCEPT ![p] = StepAfter("log_migrated")]
  /\ UNCHANGED <<fs, applied, config, env, DB, renames, err, fs0, racing>>

\* DB = None; if DB_ENGINE == "postgres":
SelectEngine(p) ==
  /\ pc[p] = "select"
  /\ Call(p, "select")
  /\ DB' = [DB EXCEPT ![p] = NoHandle]
  /\ pc' = [pc EXCEPT ![p] = EngineBranch(config.engine)]
  /\ UNCHANGED <<fs, applied, config, env, log, renames, err, fs0, racing>>

\* DB = PostgresqlExtDatabase(DB_NAME, user=..., password=..., host=..., ...)
PgConstruct(p) ==
  /\ pc[p] = "pg"
  /\ Call(p, "construct_pg")
  /\ DB' = [DB EXCEPT ![p] = PostgresqlExtDatabase]
  /\ pc' = [pc EXCEPT ![p] = StepAfter("pg")]
  /\ UNCHANGED <<fs, applied, config, env, log, renames, err, fs0, racing>>

\* DB = connect(DATABASE_URL)
UrlConnect(p) ==
  /\ pc[p] = "url"
  /\ Call(p, "construct_url")
  /\ LET r == connect(config.url) IN
       IF r.ok
         THEN /\ DB' = [DB EXCEPT ![p] = r.db]
              /\ pc' = [pc EXCEPT ![p] = StepAfter("url")]
              /\ UNCHANGED err
         ELSE /\ Raise(p, r.err)
              /\ UNCHANGED DB
  /\ UNCHANGED <<fs, applied, config, env, log, renames, fs0, racing>>

\* log.info(f"Connected to a {DB.__class__.__name__} database.")
LogConnected(p) ==
  /\ pc[p] = "log_connected"
  /\ Call(p, "log_connected")
  /\ log' = [log EXCEPT ![p] = Append(@, ConnectedMsg(DB[p].cls))]
  /\ pc' = [pc EXCEPT ![p] = StepAfter("log_connected")]
  /\ UNCHANGED <<fs, applied, config, env, DB, renames, err, fs0, racing>>

\* router = Router(DB, migrate_dir="apps/web/internal/migrations", logger=log)
RouterInit(p) ==
  /\ pc[p] = "router"
  /\ Call(p, "router")
  /\ pc' = [pc EXCEPT ![p] = StepAfter("router")]
  /\ UNCHANGED <<fs, applied, config, env, DB, log, renames, err, fs0, racing>>

\* router.run(): opens the connection to read the migration history, then
\* applies every pending migration; a failing migration is re-raised and the
\* migrations before it stay applied.
RouterRun(p) ==
  /\ pc[p] = "run"
  /\ Call(p, "run")
  /\ LET c == DB_connect(DB[p], TRUE, env.reachable) IN
       IF ~c.ok
         THEN /\ Raise(p, c.err)
              /\ UNCHANGED <<DB, applied, racing>>
       ELSE IF env.migOk
         THEN /\ DB' = [DB EXCEPT ![p] = c.db]
              /\ applied' = env.migDir
              /\ pc' = [pc EXCEPT ![p] = StepAfter("run")]
              /\ UNCHANGED err
       ELSE /\ DB' = [DB EXCEPT ![p] = c.db]
            /\ \E k \in 0..env.migDir :
                 /\ k >= applied
                 /\ k < env.migDir \/ k = applied
                 /\ applied' = k
            /\ Raise(p, "MigrationError")
  /\ UNCHANGED <<fs, config, env, log, renames, fs0, racing>>

\* DB.connect(reuse_if_open=True)
Reconnect(p) ==
  /\ pc[p] = "reconnect"
  /\ Call(p, "connect")
  /\ LET c == DB_connect(DB[p], TRUE, env.reachable) IN
       IF c.ok
         THEN /\ DB' = [DB EXCEPT ![p] = c.db]
              /\ pc' = [pc EXCEPT ![p] = StepAfter("reconnect")]
              /\ UNCHANGED err
         ELSE /\ Raise(p, c.err)
              /\ UNCHANGED DB
  /\ UNCHANGED <<fs, applied, config, env, log, renames, fs0, racing>>

Body(p) ==
  \/ LegacyCheck(p)
  \/ LegacyRename(p)
  \/ LogMigrated(p)
  \/ SelectEngine(p)
  \/ PgConstruct(p)
  \/ UrlConnect(p)
  \/ LogConnected(p)
  \/ RouterInit(p)
  \/ RouterRun(p)
  \/ Reconnect(p)

Next == \E p \in Procs : StartSeq(p) \/ Body(p)
Spec == Init /\ [][Next]_vars

NextConc == \E p \in Procs : StartConc(p) \/ Body(p)
SpecConc == Init /\ [][NextConc]_vars

\* ------------------------------------------------------- derived notions

Count(s, x) == Cardinality({i \in DOMAIN s : s[i] = x})
IsPrefix(s, t) == Len(s) <= Len(t) /\ SubSeq(t, 1, Len(s)) = s
FileContents(f) == {f[x] : x \in Paths} \ {None}
RenameErrors == {"FileNotFoundError", "PermissionError", "FileExistsError"}

Generic == config.engine # "postgres"
\* the module has been imported: its DB is what the rest of the process uses
Available(p) == pc[p] = "done"
\* no run has started after run p (runs start in the order of Procs)
Latest(p) == \A q \in Procs : q > p => pc[q] = "idle"
\* the os.rename of run p raised and nothing has run since
RenameRaised(p) == err[p] \in RenameErrors /\ Latest(p)
\* the legacy check has just ended normally
LegacyStepOver(p) == pc[p] = "select"

LegacyOrders == {<<"exists">>, <<"exists", "rename", "log_migrated">>}
EngineOrders ==
  {<<"select", "construct_pg">>,
   <<"select", "construct_url", "log_connected", "router", "run", "connect">>}
FixedOrders == {l \o e : l \in LegacyOrders, e \in EngineOrders}

TypeOK ==
  /\ fs \in [Paths -> {None} \cup Contents]
  /\ applied \in 0..MaxMigrations
  /\ pc \in [Procs -> Steps]
  /\ renames \in [Procs -> 0..1]
  /\ racing \subseteq Procs

\* ---------------------------------------------------------------- claims

\* C1: on the generic path (engine kind other than "postgres") the Migration
\* Runner is never invoked twice in a run, and when the bootstrap finishes and
\* the handle becomes available it has been invoked exactly once, has returned,
\* and every migration of the directory is recorded as applied.
C1_MigratedBeforeAvailable ==
  \A p \in Procs :
    Generic =>
      /\ Count(trace[p], "run") <= 1
      /\ Available(p) =>
           /\ Count(trace[p], "run") = 1
           /\ Count(trace[p], "router") = 1
           /\ applied = env.migDir
           /\ DB[p] # NoHandle
C1_Witness ==
  \E p \in Procs :
    Generic /\ Available(p) /\ env.migDir > 0 /\ applied = env.migDir

\* C2: with engine kind "postgres" the Migration Runner is never built nor
\* invoked, whatever the migrations directory and the legacy file are, no
\* migration is applied, and the handle is the extended-postgres one built
\* from the structured parameters.
C2_PostgresNeverMigrates ==
  \A p \in Procs :
    config.engine = "postgres" =>
      /\ Count(trace[p], "run") = 0
      /\ Count(trace[p], "router") = 0
      /\ Count(trace[p], "construct_url") = 0
      /\ applied = 0
      /\ Available(p) =>
           DB[p] # NoHandle /\ DB[p].cls = "PostgresqlExtDatabase" /\ DB[p].from = "params"
C2_Witness ==
  \E p \in Procs :
    /\ config.engine = "postgres" /\ Available(p)
    /\ env.migDir > 0 /\ fs0[p][OllamaDb] # None

\* C3 as stated: every run that starts with ollama.db has, once its legacy
\* step is over (normally or by an exception), no ollama.db, webui.db with the
\* old content, one rename and the migration log entry.
C3_Claim ==
  \A p \in Procs :
    (fs0[p][OllamaDb] # None /\ (LegacyStepOver(p) \/ RenameRaised(p))) =>
      /\ fs[OllamaDb] = None
      /\ fs[WebuiDb] = fs0[p][OllamaDb]
      /\ renames[p] = 1
      /\ Count(log[p], MigratedMsg) = 1

\* C3 amended: every run that starts with ollama.db and whose os.rename does
\* not raise has, right after the legacy step, no ollama.db, webui.db with the
\* content ollama.db had, exactly one rename and exactly one migration log
\* entry; a run whose os.rename raises leaves both files as they were.
C3_RenamedWhenNoError ==
  \A p \in Procs :
    fs0[p][OllamaDb] # None =>
      /\ LegacyStepOver(p) =>
           /\ fs[OllamaDb] = None
           /\ fs[WebuiDb] = fs0[p][OllamaDb]
           /\ renames[p] = 1
           /\ Count(trace[p], "rename") = 1
           /\ Count(log[p], MigratedMsg) = 1
      /\ err[p] \in RenameErrors =>
           renames[p] = 0 /\ Count(log[p], MigratedMsg) = 0
      /\ RenameRaised(p) => fs = fs0[p]
C3_Witness ==
  \E p \in Procs :
    /\ LegacyStepOver(p) /\ fs0[p][OllamaDb] = "A"
    /\ fs[WebuiDb] = "A" /\ renames[p] = 1

\* C4 as stated: a failure is fatal on both engine paths: a run that raised is
\* failed, no run finishes when the database host is unreachable, and a
\* finished run has a connected handle with every migration applied.
C4_Claim ==
  \A p \in Procs :
    /\ err[p] # None => pc[p] = "failed"
    /\ ~env.reachable => ~Available(p)
    /\ Available(p) =>
         DB[p] # NoHandle /\ DB[p].open /\ applied = env.migDir

\* C5 as stated: the legacy step never silently loses data: after a rename
\* that returned, every content present when the run started is still at some
\* path, and after a rename that raised both files are as they were.
C5_Claim ==
  \A p \in Procs :
    fs0[p][OllamaDb] # None =>
      /\ pc[p] = "log_migrated" => FileContents(fs0[p]) \subseteq FileContents(fs)
      /\ RenameRaised(p) => fs = fs0[p]

\* C6: once a run has renamed ollama.db, every later run starts without
\* ollama.db, checks once, calls no rename, emits no migration log entry,
\* raises no error from the legacy step and leaves the data directory as the
\* previous run left it.
C6_LegacyIdempotent ==
  \A p, q \in Procs :
    (p < q /\ renames[p] >= 1 /\ pc[q] # "idle") =>
      /\ fs0[q][OllamaDb] = None
      /\ fs0[q][WebuiDb] = fs0[p][OllamaDb]
      /\ Count(trace[q], "exists") <= 1
      /\ Count(trace[q], "rename") = 0
      /\ renames[q] = 0
      /\ Count(log[q], MigratedMsg) = 0
      /\ err[q] \notin RenameErrors
      /\ pc[q] \notin {"rename", "log_migrated"}
      /\ LegacyStepOver(q) => fs = fs0[q]
C6_Witness ==
  \E p, q \in Procs :
    p < q /\ renames[p] = 1 /\ LegacyStepOver(q) /\ fs[WebuiDb] = "A"

\* C7: a run that starts without ollama.db calls no rename, emits no
\* migration log entry, and leaves the data directory, an existing webui.db
\* included, unchanged by its legacy step.
C7_AbsentNoEffect ==
  \A p \in Procs :
    (pc[p] # "idle" /\ fs0[p][OllamaDb] = None) =>
      /\ Count(trace[p], "rename") = 0
      /\ renames[p] = 0
      /\ Count(log[p], MigratedMsg) = 0
      /\ pc[p] \notin {"rename", "log_migrated"}
      /\ LegacyStepOver(p) => fs = fs0[p]
C7_Witness ==
  \E p \in Procs :
    LegacyStepOver(p) /\ fs0[p][OllamaDb] = None /\ fs[WebuiDb] = "B"

\* C8 as stated: when two instances both saw ollama.db before either renamed
\* it and both have called os.rename, exactly one rename succeeded, the other
\* raised FileNotFoundError and failed, and webui.db holds the content.
C8_Claim ==
  \A p, q \in racing :
    (p # q /\ Count(trace[p], "rename") = 1 /\ Count(trace[q], "rename") = 1) =>
      /\ renames[p] + renames[q] = 1
      /\ renames[p] = 0 => err[p] = "FileNotFoundError" /\ pc[p] = "failed"
      /\ fs[OllamaDb] = None

\* C8 amended: when two instances both saw ollama.db before either renamed it,
\* at most one rename succeeds and the other instance's rename raises, so that
\* start-up fails: it raises FileNotFoundError whenever it is called after the
\* source is gone; never do both log a successful migration, and after the
\* successful rename the content is at webui.db and no longer at ollama.db.
\* (Both renames fail when os.rename raises for another reason.)
C8_AtMostOneRename ==
  /\ [](\A p, q \in racing :
          p # q =>
            /\ renames[p] + renames[q] <= 1
            /\ Count(log[p], MigratedMsg) + Count(log[q], MigratedMsg) <= 1
            /\ (renames[p] = 1 /\ Count(trace[q], "rename") = 1) =>
                 err[q] \in RenameErrors /\ pc[q] = "failed"
            /\ renames[p] = 1 =>
                 fs[OllamaDb] = None /\ fs[WebuiDb] = fs0[p][OllamaDb])
  /\ [][\A q \in racing :
          (pc[q] = "rename" /\ pc'[q] # "rename" /\ fs[OllamaDb] = None) =>
            err'[q] = "FileNotFoundError" /\ pc'[q] = "failed"]_vars
C8_Witness ==
  \E p, q \in racing :
    /\ p # q /\ renames[p] = 1 /\ Count(log[p], MigratedMsg) = 1
    /\ err[q] = "FileNotFoundError" /\ pc[q] = "failed"

\* C9: the calls of a run are always a prefix of one fixed order: legacy
\* check (and rename, log entry), engine selection, handle construction, then
\* on the generic path the log entry, the Migration Runner and the final
\* connect; no call is repeated, and a handle exists only after the legacy
\* step, with the rename done if the run took it.
C9_FixedOrder ==
  \A p \in Procs :
    /\ \E o \in FixedOrders : IsPrefix(trace[p], o)
    /\ DB[p] # NoHandle =>
         /\ Count(trace[p], "exists") = 1
         /\ Count(trace[p], "rename") = renames[p]
         /\ Count(log[p], MigratedMsg) = renames[p]
    /\ Available(p) => trace[p] \in FixedOrders
C9_Witness ==
  \E p \in Procs :
    /\ Available(p)
    /\ trace[p] = <<"exists", "rename", "log_migrated", "select",
                    "construct_url", "log_connected", "router", "run", "connect">>

\* C10: a finished run has constructed exactly one handle, by the postgres
\* branch exactly when the engine kind is the string "postgres"; on the
\* generic path the final connect reused the connection the Migration Runner
\* opened, so one connection was opened in all; and a published handle is
\* never replaced.
C10_OneHandle ==
  /\ [](\A p \in Procs :
          Available(p) =>
            /\ DB[p] # NoHandle
            /\ Count(trace[p], "construct_pg") + Count(trace[p], "construct_url") = 1
            /\ (config.engine = "postgres") <=> (Count(trace[p], "construct_pg") = 1)
            /\ (config.engine = "postgres") <=> (DB[p].cls = "PostgresqlExtDatabase")
            /\ DB[p].opened <= 1
            /\ Generic => (DB[p].open /\ DB[p].opened = 1
                           /\ Count(trace[p], "connect") = 1))
  /\ [][\A p \in Procs : Available(p) => DB'[p] = DB[p]]_vars
C10_Witness ==
  \E p \in Procs :
    /\ Available(p) /\ config.engine = "Postgres"
    /\ DB[p].cls = "PostgresqlDatabase" /\ DB[p].open /\ DB[p].opened = 1

====
